---- MODULE Spec2Model ----
(***************************************************************************)
(* Model of the plugin lifecycle manager of src/cogs/plugins.py (class     *)
(* Plugins): identifier parsing, repository fetch, unit load, and the      *)
(* add / remove / update / list commands plus the startup replay.          *)
(*                                                                         *)
(* Strings are sequences of one-character strings, so that str.split,      *)
(* str.join and str.startswith are computed as Python computes them.       *)
(***************************************************************************)
EXTENDS Naturals, Sequences, FiniteSets

\* ------------------------------------------------------------------ bounds
\* Longest installed list the model lets add build.
MaxPlugins == 2
\* Longest persisted list the startup replay starts from in SpecReplay.
MaxPersisted == 3
\* Longest raw string handed to parse_plugin in SpecParse.
MaxLen == 7

\* ----------------------------------------------------------------- strings
Slash == "/"

Range(s) == { s[i] : i \in 1..Len(s) }

\* name.split('/'): one more segment than there are separators, empty
\* segments kept.
RECURSIVE split(_)
split(s) ==
    IF s = << >> THEN << << >> >>
    ELSE LET rest == split(Tail(s)) IN
         IF Head(s) = Slash THEN << << >> >> \o rest
         ELSE << << Head(s) >> \o Head(rest) >> \o Tail(rest)

\* '/'.join(segs)
RECURSIVE join(_)
join(segs) ==
    IF Len(segs) = 0 THEN << >>
    ELSE IF Len(segs) = 1 THEN segs[1]
    ELSE segs[1] \o << Slash >> \o join(Tail(segs))

\* i.startswith(prefix)
startswith(s, prefix) ==
    /\ Len(prefix) <= Len(s)
    /\ SubSeq(s, 1, Len(prefix)) = prefix

\* Python's None; split never returns an empty list, so no tuple equals it.
None == << >>

\* parse_plugin: result[2] = '/'.join(result[2:]) overwrites the third
\* element only (IndexError, hence None, when there is no third element);
\* tuple(result) keeps every element of the list.
parse_plugin(name) ==
    LET result == split(name) IN
    IF Len(result) < 3 THEN None
    ELSE [result EXCEPT ![3] = join(SubSeq(result, 3, Len(result)))]

\* plugins/{username}-{repo}
DirName(username, repo) == username \o << "-" >> \o repo

\* plugins.{username}-{repo}.{plugin_name}.{plugin_name}
ExtName(username, repo, name) ==
    << "plugins." >> \o username \o << "-" >> \o repo
        \o << "." >> \o name \o << "." >> \o name

\* f'{username}/{repo}'
RepoPrefix(username, repo) == username \o << Slash >> \o repo

\* list.remove(x): drops the first occurrence.
RECURSIVE list_remove(_, _)
list_remove(s, x) ==
    IF s = << >> THEN << >>
    ELSE IF Head(s) = x THEN Tail(s)
    ELSE << Head(s) >> \o list_remove(Tail(s), x)

\* ------------------------------------------------------------------ inputs
\* Raw identifiers the operator types: two units of repository a/b, one
\* unit of a/bc (whose 'owner/repo' text begins with 'a/b'), one identifier
\* with two segments and one with four.
ValidIds ==
    { << "a", "/", "b", "/", "x" >>,
      << "a", "/", "b", "/", "y" >>,
      << "a", "/", "b", "c", "/", "y" >> }

\* The identifiers the concurrent commands are given: the two units of
\* the one repository a/b.
ConcIds ==
    { << "a", "/", "b", "/", "x" >>,
      << "a", "/", "b", "/", "y" >> }

RawIds ==
    ValidIds \cup { << "a", "/", "b" >>,
                    << "a", "/", "b", "/", "c", "/", "d" >> }

\* Outcome of running git clone: the remote answers, the remote or the
\* network fails, or the process cannot be started at all (subprocess.run
\* is given a command string without shell=True).
GitEnv == { "up", "down", "nogit" }

\* Whether the unit's module exists with the expected layout in the repo.
LoadEnv == { "valid", "invalid" }

\* shutil.rmtree(..., ignore_errors=True): the tree is gone, or a failure
\* was swallowed and the tree is still there.
RmEnv == { "deleted", "failed" }

\* ctx.send(''): the host's send of an empty message returns or raises.
SendEnv == { "ok", "raise" }

\* git pull: fails, prints 'Already up to date.', or brings new commits.
PullEnv == { "fail", "uptodate", "new" }

\* The reload after a pull: importlib.reload(import_module(ext)) raises,
\* load_extension raises, or both succeed.
ReloadEnv == { "ok", "importfail", "loadfail" }

\* The reload is reached only after a pull that brought new commits.
UpdateEnv ==
    { << g, r >> : g \in PullEnv, r \in ReloadEnv } \
        { << g, r >> : g \in { "fail", "uptodate" },
                       r \in { "importfail", "loadfail" } }

\* The load is reached only when the clone process could be started.
AddEnv ==
    { << g, l >> : g \in GitEnv, l \in LoadEnv } \ { << "nogit", "invalid" >> }

\* Characters of the strings SpecParse hands to parse_plugin.
Alphabet == { "a", "b", Slash }

RECURSIVE StringsUpTo(_)
StringsUpTo(n) ==
    IF n = 0 THEN { << >> }
    ELSE LET shorter == StringsUpTo(n - 1) IN
         shorter \cup { Append(s, c) : s \in { t \in shorter : Len(t) = n - 1 },
                                       c \in Alphabet }

\* ------------------------------------------------------------------- state
VARIABLES
    plugins,     \* self.bot.config.plugins, the in-memory installed list
    stored,      \* what the last config.update() wrote to the store
    dirs,        \* cache directories present under plugins/
    extensions,  \* self.bot.extensions: the loaded units
    last,        \* the last command: its input, outcome and message
    addedOk,     \* history: identifiers some add fetched and loaded
    before,      \* history: <<p, q>> when p's install preceded q's
    task,        \* position of the download_initial_plugins task
    replayIdx,   \* index of the for loop of download_initial_plugins
    replayLog,   \* history: what the replay attempted, per identifier
    initial,     \* history: config.plugins when the host started
    parseIn,     \* SpecParse: the string given to parse_plugin
    parseOut,    \* SpecParse: what parse_plugin returned
    handler      \* SpecConc: per command task, its command and where it is

vars == << plugins, stored, dirs, extensions, last, addedOk, before,
           task, replayIdx, replayLog, initial, parseIn, parseOut,
           handler >>

cmdVars == << plugins, stored, dirs, extensions, last, addedOk, before >>
replayVars == << task, replayIdx, replayLog, initial >>
parseVars == << parseIn, parseOut >>
concVars == << handler >>

\* The command tasks the event loop runs side by side.
Handlers == { "t1", "t2" }

\* A task slot with no command in it.
Idle == [ op |-> "none", raw |-> << >>, pc |-> "idle" ]

\* What the last command did. pull is the outcome of update's git pull,
\* calls the unload_extension/load_extension calls the handler made on the
\* bot, in order, and gen the number of times it registered the unit anew,
\* which is by how much the load generation of the unit went up; cloned
\* tells whether add's git clone created the cache directory.
NoCommand ==
    [ op |-> "none", raw |-> << >>, msg |-> "none", fetch |-> "none",
      load |-> "none", rm |-> "none", restored |-> FALSE, out |-> << >>,
      pull |-> "none", calls |-> << >>, gen |-> 0, cloned |-> FALSE ]

\* The unpacking 'username, repo, name = ...' and the call with *parsed need
\* exactly this many elements; anything else raises TypeError/ValueError.
Slice(parsed) ==
    IF parsed = None THEN None ELSE SubSeq(parsed, 1, Len(parsed) - 1)

\* ------------------------------------------------------- fetch and load
\* download_plugin_repo(*args) with the cache directories ds on disk:
\* git clone into plugins/{username}-{repo}. A CalledProcessError whose
\* text ends 'already exists and is not an empty directory.' is swallowed;
\* any other one becomes DownloadError.
\* Variant of clone_error_swallowed: every CalledProcessError is raised as
\* DownloadError.
clone_error_always_raised(exists) == FALSE

\* error.endswith('already exists and is not an empty directory.'): git
\* clone refuses, with this text, a destination that exists with a clone
\* in it, and leaves it as it is.
clone_error_swallowed(exists) == exists

download_plugin_repo(args, genv, ds) ==
    IF Len(args) # 2 THEN [ res |-> "TypeError", dirs |-> ds ]
    ELSE LET d == DirName(args[1], args[2]) IN
         IF genv = "nogit" THEN [ res |-> "OSError", dirs |-> ds ]
         ELSE IF d \notin ds /\ genv = "up"
         THEN [ res |-> "ok", dirs |-> ds \cup { d } ]
         ELSE IF clone_error_swallowed(d \in ds)
         THEN [ res |-> "ok", dirs |-> ds ]
         ELSE [ res |-> "DownloadError", dirs |-> ds ]

\* load_plugin(*args) with the cache directories ds on disk and the units
\* exts registered: bot.load_extension(ext); ModuleNotFoundError becomes
\* DownloadError. The host runtime answers a registration with Ok or
\* NotFound only: registering a loaded extension again changes nothing.
load_plugin(args, lenv, ds, exts) ==
    IF Len(args) # 3 THEN [ res |-> "TypeError", extensions |-> exts ]
    ELSE LET ext == ExtName(args[1], args[2], args[3]) IN
         IF ext \in exts
         THEN [ res |-> "ok", extensions |-> exts ]
         ELSE IF DirName(args[1], args[2]) \notin ds \/ lenv = "invalid"
         THEN [ res |-> "DownloadError", extensions |-> exts ]
         ELSE [ res |-> "ok", extensions |-> exts \cup { ext } ]

\* --------------------------------------------------------------------- add
\* Variant of add_appends: the return of the second except block is
\* missing, so a failed load falls through to the append.
add_appends_always(fetch, load) == fetch = "ok"

\* add reaches the append of line 106 only when neither try block returned.
add_appends(fetch, load) == fetch = "ok" /\ load = "ok"

add_run(plugin_name, genv, lenv) ==
    IF Len(split(plugin_name)) < 3
    THEN [ msg |-> "bad_format", fetch |-> "none", load |-> "none",
           calls |-> << >>, gen |-> 0, cloned |-> FALSE,
           plugins |-> plugins, stored |-> stored, dirs |-> dirs,
           extensions |-> extensions ]
    ELSE LET parsed == parse_plugin(plugin_name)
             f == download_plugin_repo(Slice(parsed), genv, dirs)
             l == IF f.res = "ok"
                  THEN load_plugin(parsed, lenv, f.dirs, extensions)
                  ELSE [ res |-> "none", extensions |-> extensions ]
             appended == add_appends(f.res, l.res)
             list == IF appended THEN Append(plugins, plugin_name)
                     ELSE plugins
         IN [ msg |-> IF f.res = "DownloadError" THEN "fetch_error"
                      ELSE IF f.res # "ok" THEN "raised"
                      ELSE IF l.res = "DownloadError" THEN "load_error"
                      ELSE IF l.res # "ok" THEN "raised"
                      ELSE "installed",
              fetch |-> f.res, load |-> l.res,
              calls |-> IF l.res \in { "ok", "DownloadError" }
                        THEN << "load" >> ELSE << >>,
              gen |-> IF l.extensions # extensions THEN 1 ELSE 0,
              cloned |-> f.dirs # dirs,
              plugins |-> list,
              stored |-> IF appended THEN list ELSE stored,
              dirs |-> f.dirs, extensions |-> l.extensions ]

add(plugin_name, genv, lenv) ==
    \E r \in { add_run(plugin_name, genv, lenv) } :
    /\ task = "done"
    /\ Len(r.plugins) <= MaxPlugins
    /\ plugins' = r.plugins
    /\ stored' = r.stored
    /\ dirs' = r.dirs
    /\ extensions' = r.extensions
    /\ last' = [ NoCommand EXCEPT !.op = "add", !.raw = plugin_name,
                                  !.msg = r.msg, !.fetch = r.fetch,
                                  !.load = r.load, !.calls = r.calls,
                                  !.gen = r.gen, !.cloned = r.cloned ]
    /\ addedOk' = IF r.fetch = "ok" /\ r.load = "ok"
                  THEN addedOk \cup { plugin_name } ELSE addedOk
    /\ before' = IF r.plugins # plugins /\ plugin_name \notin Range(plugins)
                 THEN before \cup { << p, plugin_name >> : p \in Range(plugins) }
                 ELSE before
    /\ UNCHANGED << replayVars, parseVars, concVars >>

\* ------------------------------------------------------------------ remove
\* Variant of repo_still_used: the remaining identifiers are not looked at.
repo_unused_always(username, repo, rest) == FALSE

\* any(i.startswith(f'{username}/{repo}') for i in self.bot.config.plugins)

repo_still_used(username, repo, rest) ==
    \E k \in 1..Len(rest) : startswith(rest[k], RepoPrefix(username, repo))

\* Variant of remove_accepts: the membership test is missing.
remove_accepts_any(plugin_name, list) == TRUE

\* if plugin_name in self.bot.config.plugins:
remove_accepts(plugin_name, list) == plugin_name \in Range(list)

remove_run(plugin_name, renv, senv) ==
    LET same == [ msg |-> "not_installed", rm |-> "none", restored |-> FALSE,
                  calls |-> << >>,
                  plugins |-> plugins, stored |-> stored, dirs |-> dirs,
                  extensions |-> extensions ]
        parsed == parse_plugin(plugin_name)
    IN
    IF ~ remove_accepts(plugin_name, plugins) THEN same
    ELSE IF Len(parsed) # 3 THEN [ same EXCEPT !.msg = "raised" ]
    ELSE LET username == parsed[1]
             repo == parsed[2]
             name == parsed[3]
             rest == list_remove(plugins, plugin_name)
             cleanup == ~ repo_still_used(username, repo, rest)
             raised == cleanup /\ senv = "raise"
         IN [ msg |-> IF raised THEN "raised" ELSE "uninstalled",
              rm |-> IF cleanup THEN renv ELSE "none",
              restored |-> raised,
              calls |-> << "unload" >>,
              plugins |-> IF raised THEN Append(rest, plugin_name) ELSE rest,
              stored |-> IF raised THEN stored ELSE rest,
              dirs |-> IF cleanup /\ renv = "deleted"
                       THEN dirs \ { DirName(username, repo) } ELSE dirs,
              extensions |-> extensions \ { ExtName(username, repo, name) } ]

remove(plugin_name, renv, senv) ==
    \E r \in { remove_run(plugin_name, renv, senv) } :
    /\ task = "done"
    /\ plugins' = r.plugins
    /\ stored' = r.stored
    /\ dirs' = r.dirs
    /\ extensions' = r.extensions
    /\ last' = [ NoCommand EXCEPT !.op = "remove", !.raw = plugin_name,
                                  !.msg = r.msg, !.rm = r.rm,
                                  !.restored = r.restored,
                                  !.calls = r.calls ]
    /\ before' = IF plugin_name \in Range(r.plugins) THEN before
                 ELSE { pq \in before :
                          pq[1] # plugin_name /\ pq[2] # plugin_name }
    /\ UNCHANGED << addedOk, replayVars, parseVars, concVars >>

\* ------------------------------------------------------------------ update
\* Variant of update_reloads: the reload is not under the else of the try,
\* so it also runs after a pull that failed.
update_reloads_unless_uptodate(pull) == pull # "uptodate"

\* Variant of update_reloads: the output of the pull is not compared with
\* 'Already up to date.', so every pull that succeeded reloads.
update_reloads_on_success(pull) == pull # "fail"

\* The reload of lines 158-162 is under the else of the try and under
\* "if output != 'Already up to date.'".
update_reloads(pull) == pull = "new"

update_run(plugin_name, penv, renv) ==
    LET same == [ msg |-> "raised", pull |-> "none", load |-> "none",
                  calls |-> << >>, gen |-> 0, extensions |-> extensions ]
        parsed == parse_plugin(plugin_name)
    IN
    IF Len(parsed) # 3 THEN same
    ELSE LET ext == ExtName(parsed[1], parsed[2], parsed[3])
             pull == IF DirName(parsed[1], parsed[2]) \notin dirs
                     THEN "fail" ELSE penv
         IN
         IF ~ update_reloads(pull)
         THEN [ same EXCEPT !.pull = pull,
                            !.msg = IF pull = "fail" THEN "update_error"
                                    ELSE "uptodate" ]
         ELSE IF renv = "importfail" THEN [ same EXCEPT !.pull = pull ]
         ELSE IF renv = "loadfail"
         THEN [ msg |-> "raised", pull |-> pull, load |-> "raised",
                calls |-> << "unload", "load" >>, gen |-> 0,
                extensions |-> extensions \ { ext } ]
         ELSE [ msg |-> "updated", pull |-> pull, load |-> "ok",
                calls |-> << "unload", "load" >>, gen |-> 1,
                extensions |-> (extensions \ { ext }) \cup { ext } ]

update(plugin_name, penv, renv) ==
    \E r \in { update_run(plugin_name, penv, renv) } :
    /\ task = "done"
    /\ extensions' = r.extensions
    /\ last' = [ NoCommand EXCEPT !.op = "update", !.raw = plugin_name,
                                  !.msg = r.msg, !.pull = r.pull,
                                  !.load = r.load, !.calls = r.calls,
                                  !.gen = r.gen ]
    /\ UNCHANGED << plugins, stored, dirs, addedOk, before,
                    replayVars, parseVars, concVars >>

\* -------------------------------------------------------------------- list
list_ ==
    /\ task = "done"
    /\ last' = [ NoCommand EXCEPT !.op = "list", !.msg = "list",
                                  !.out = plugins ]
    /\ UNCHANGED << plugins, stored, dirs, extensions, addedOk, before,
                    replayVars, parseVars, concVars >>

\* ------------------------------------------------------- replay iteration
\* One iteration of 'for i in self.bot.config.plugins': DownloadError from
\* the fetch is caught and printed, then load_plugin is awaited outside any
\* try block, so whatever it raises ends the task.
replay_iteration(i, genv, lenv, ds, exts) ==
    LET parsed == parse_plugin(i)
        f == download_plugin_repo(Slice(parsed), genv, ds)
    IN
    IF f.res \notin { "ok", "DownloadError" }
    THEN [ fetch |-> f.res, load |-> "none", dirs |-> f.dirs,
           extensions |-> exts, task |-> "failed" ]
    ELSE LET l == load_plugin(parsed, lenv, f.dirs, exts) IN
         [ fetch |-> f.res, load |-> l.res, dirs |-> f.dirs,
           extensions |-> l.extensions,
           task |-> IF l.res = "ok" THEN "running" ELSE "failed" ]

\* The whole for loop from index k on, with envs[k] the outcome the k-th
\* identifier meets: the disk and the registry the task leaves behind.
RECURSIVE replay_from(_, _, _, _, _)
replay_from(list, k, envs, ds, exts) ==
    IF k > Len(list) THEN [ dirs |-> ds, extensions |-> exts ]
    ELSE LET r == replay_iteration(list[k], envs[k][1], envs[k][2], ds, exts)
         IN IF r.task = "failed"
            THEN [ dirs |-> r.dirs, extensions |-> r.extensions ]
            ELSE replay_from(list, k + 1, envs, r.dirs, r.extensions)

\* ----------------------------------------------------------------- restart
\* The host process is restarted: no unit is registered in the new process,
\* config.plugins is read back from the store, and __init__ schedules
\* download_initial_plugins, which runs through the list without yielding
\* to any command handler.
restart(envs) ==
    /\ task = "done"
    /\ \E r \in { replay_from(stored, 1, envs, dirs, { }) } :
        /\ dirs' = r.dirs
        /\ extensions' = r.extensions
    /\ plugins' = stored
    /\ last' = [ NoCommand EXCEPT !.op = "restart" ]
    /\ UNCHANGED << stored, addedOk, before, replayVars, parseVars, concVars >>

\* The first failure ends the replay task, so what the later identifiers
\* would have met does not matter: the identifiers before index k succeed
\* and the others meet e.
ReplayEnvs(n) ==
    { [ i \in 1..n |-> IF i < k THEN << "up", "valid" >> ELSE e ] :
        k \in 1..(n + 1), e \in AddEnv }

\* ----------------------------------------------------------- specification
\* A fresh host: nothing installed, nothing cached, nothing loaded; the
\* startup replay over the empty list has ended.
Init ==
    /\ plugins = << >>
    /\ stored = << >>
    /\ dirs = { }
    /\ extensions = { }
    /\ last = NoCommand
    /\ addedOk = { }
    /\ before = { }
    /\ task = "done"
    /\ replayIdx = 1
    /\ replayLog = << >>
    /\ initial = << >>
    /\ parseIn = << >>
    /\ parseOut = [ done |-> FALSE, value |-> None ]
    /\ handler = [ h \in Handlers |-> Idle ]

Add == \E p \in RawIds, e \in AddEnv : add(p, e[1], e[2])
Remove == \E p \in RawIds, r \in RmEnv, s \in SendEnv : remove(p, r, s)
Update == \E p \in RawIds, e \in UpdateEnv : update(p, e[1], e[2])
List == list_
Restart == \E envs \in ReplayEnvs(Len(stored)) : restart(envs)

Next == Add \/ Remove \/ Update \/ List \/ Restart

Spec == Init /\ [][Next]_vars

\* The host with only installs and restarts: no remove and no update runs.
NextInstall == Add \/ Restart

SpecInstall == Init /\ [][NextInstall]_vars

\* ---------------------------------------------------------- startup replay
\* await self.bot._connected.wait() returns.
connected ==
    /\ task = "waiting"
    /\ task' = "running"
    /\ UNCHANGED << cmdVars, replayIdx, replayLog, initial, parseVars, concVars >>

download_initial_plugins(genv, lenv) ==
    /\ task = "running"
    /\ replayIdx <= Len(plugins)
    /\ \E r \in { replay_iteration(plugins[replayIdx], genv, lenv,
                                  dirs, extensions) } :
        /\ dirs' = r.dirs
        /\ extensions' = r.extensions
        /\ task' = r.task
        /\ replayLog' = Append(replayLog, [ raw |-> plugins[replayIdx],
                                            fetch |-> r.fetch,
                                            load |-> r.load ])
    /\ replayIdx' = replayIdx + 1
    /\ UNCHANGED << plugins, stored, last, addedOk, before, initial,
                    parseVars, concVars >>

\* The for loop is exhausted and the task returns.
replay_returns ==
    /\ task = "running"
    /\ replayIdx > Len(plugins)
    /\ task' = "done"
    /\ UNCHANGED << cmdVars, replayIdx, replayLog, initial, parseVars, concVars >>

\* The cache directories the identifiers of ValidIds name.
AllDirs ==
    { DirName(parse_plugin(p)[1], parse_plugin(p)[2]) : p \in ValidIds }

RECURSIVE ListsUpTo(_)
\* The lists of distinct installable identifiers, at most n long.
ListsUpTo(n) ==
    IF n = 0 THEN { << >> }
    ELSE LET shorter == ListsUpTo(n - 1) IN
         shorter \cup { Append(s, p) : s \in { t \in shorter : Len(t) = n - 1 },
                                       p \in ValidIds }

\* The host starts with a persisted list that earlier adds built, with any
\* of the cache directories present, and nothing loaded.
InitReplay ==
    /\ plugins \in { s \in ListsUpTo(MaxPersisted) :
                       Cardinality(Range(s)) = Len(s) }
    /\ stored = plugins
    /\ initial = plugins
    /\ dirs \in SUBSET AllDirs
    /\ extensions = { }
    /\ last = NoCommand
    /\ addedOk = Range(plugins)
    /\ before = { << plugins[ij[1]], plugins[ij[2]] >> :
                    ij \in { x \in (1..Len(plugins)) \X (1..Len(plugins)) :
                               x[1] < x[2] } }
    /\ task = "waiting"
    /\ replayIdx = 1
    /\ replayLog = << >>
    /\ parseIn = << >>
    /\ parseOut = [ done |-> FALSE, value |-> None ]
    /\ handler = [ h \in Handlers |-> Idle ]

Replay == \E g \in GitEnv, l \in LoadEnv : download_initial_plugins(g, l)

NextReplay == connected \/ Replay \/ replay_returns

SpecReplay == InitReplay /\ [][NextReplay]_vars

\* ------------------------------------------------------------ parse_plugin
\* parse_plugin applied to one string.
parse_call ==
    /\ ~ parseOut.done
    /\ parseOut' = [ done |-> TRUE, value |-> parse_plugin(parseIn) ]
    /\ UNCHANGED << cmdVars, replayVars, parseIn, concVars >>

InitParse ==
    /\ parseIn \in StringsUpTo(MaxLen)
    /\ parseOut = [ done |-> FALSE, value |-> None ]
    /\ handler = [ h \in Handlers |-> Idle ]
    /\ plugins = << >>
    /\ stored = << >>
    /\ dirs = { }
    /\ extensions = { }
    /\ last = NoCommand
    /\ addedOk = { }
    /\ before = { }
    /\ task = "done"
    /\ replayIdx = 1
    /\ replayLog = << >>
    /\ initial = << >>

NextParse == parse_call

SpecParse == InitParse /\ [][NextParse]_vars

\* -------------------------------------------------------- concurrent tasks
\* Every command runs as a task of the one event loop, next to the task
\* __init__ created. A task gives the loop up only at an await that really
\* suspends: ctx.typing(), ctx.send(), config.update(), _connected.wait().
\* download_plugin_repo and load_plugin await nothing, and subprocess.run
\* returns only when git has exited.

\* Variant of loop_blocked_by: git runs through the loop's own subprocess
\* support, and the loop goes on with other tasks meanwhile.
loop_never_blocked(pc) == FALSE

\* The positions at which a task keeps the loop to itself: inside
\* subprocess.run, and the replay from the return of _connected.wait() on.
loop_blocked_by(pc) == pc \in { "cloning", "pulling", "running" }

\* No task other than h holds the loop.
loop_free_for(h) ==
    /\ \A g \in Handlers \ { h } : ~ loop_blocked_by(handler[g].pc)
    /\ h # "replay" => ~ loop_blocked_by(task)

\* add is dispatched and suspends in 'async with ctx.typing()'.
add_typing(h, plugin_name) ==
    /\ loop_free_for(h)
    /\ handler[h] = Idle
    /\ Len(plugins) < MaxPlugins
    /\ handler' = [ handler EXCEPT ![h] = [ op |-> "add", raw |-> plugin_name,
                                            pc |-> "typing" ] ]
    /\ UNCHANGED << cmdVars, replayVars, parseVars >>

\* add is resumed: format check, parse, and subprocess.run starts git clone
\* (started), or raises OSError.
add_clone(h, started) ==
    /\ loop_free_for(h)
    /\ handler[h].op = "add"
    /\ handler[h].pc = "typing"
    /\ handler' = [ handler EXCEPT ![h] =
                      IF \/ Len(split(@.raw)) < 3
                         \/ Len(Slice(parse_plugin(@.raw))) # 2
                         \/ ~ started
                      THEN Idle ELSE [ @ EXCEPT !.pc = "cloning" ] ]
    /\ UNCHANGED << cmdVars, replayVars, parseVars >>

\* git clone exits and add runs on to the append and config.update().
add_finish(h, genv, lenv) ==
    /\ loop_free_for(h)
    /\ handler[h].op = "add"
    /\ handler[h].pc = "cloning"
    /\ \E r \in { add_run(handler[h].raw, genv, lenv) } :
        /\ plugins' = r.plugins
        /\ stored' = r.stored
        /\ dirs' = r.dirs
        /\ extensions' = r.extensions
    /\ handler' = [ handler EXCEPT ![h] = Idle ]
    /\ UNCHANGED << last, addedOk, before, replayVars, parseVars >>

\* remove is dispatched and runs to its first await: ctx.send('') in the
\* cleanup branch, config.update() otherwise.
remove_begin(h, plugin_name, renv) ==
    /\ loop_free_for(h)
    /\ handler[h] = Idle
    /\ \E r \in { remove_run(plugin_name, renv, "ok") } :
        /\ plugins' = r.plugins
        /\ stored' = IF r.rm = "none" THEN r.stored ELSE stored
        /\ dirs' = r.dirs
        /\ extensions' = r.extensions
        /\ handler' = [ handler EXCEPT ![h] =
                          IF r.rm = "none" THEN Idle
                          ELSE [ op |-> "remove", raw |-> plugin_name,
                                 pc |-> "sending" ] ]
    /\ UNCHANGED << last, addedOk, before, replayVars, parseVars >>

\* ctx.send('') returns, and config.update() writes the list as it is now;
\* or it raises, and the except block appends the identifier again.
remove_end(h, senv) ==
    /\ loop_free_for(h)
    /\ handler[h].op = "remove"
    /\ handler[h].pc = "sending"
    /\ IF senv = "raise"
       THEN /\ plugins' = Append(plugins, handler[h].raw)
            /\ UNCHANGED stored
       ELSE /\ stored' = plugins
            /\ UNCHANGED plugins
    /\ handler' = [ handler EXCEPT ![h] = Idle ]
    /\ UNCHANGED << dirs, extensions, last, addedOk, before,
                    replayVars, parseVars >>

\* update is dispatched and suspends in 'async with ctx.typing()'.
update_typing(h, plugin_name) ==
    /\ loop_free_for(h)
    /\ handler[h] = Idle
    /\ handler' = [ handler EXCEPT ![h] = [ op |-> "update",
                                            raw |-> plugin_name,
                                            pc |-> "typing" ] ]
    /\ UNCHANGED << cmdVars, replayVars, parseVars >>

\* update is resumed: parse, and subprocess.run starts the shell that runs
\* git pull.
update_pull(h) ==
    /\ loop_free_for(h)
    /\ handler[h].op = "update"
    /\ handler[h].pc = "typing"
    /\ handler' = [ handler EXCEPT ![h] =
                      IF Len(parse_plugin(@.raw)) # 3
                      THEN Idle ELSE [ @ EXCEPT !.pc = "pulling" ] ]
    /\ UNCHANGED << cmdVars, replayVars, parseVars >>

\* git pull exits and update runs on to its ctx.send.
update_finish(h, penv, renv) ==
    /\ loop_free_for(h)
    /\ handler[h].op = "update"
    /\ handler[h].pc = "pulling"
    /\ \E r \in { update_run(handler[h].raw, penv, renv) } :
        extensions' = r.extensions
    /\ handler' = [ handler EXCEPT ![h] = Idle ]
    /\ UNCHANGED << plugins, stored, dirs, last, addedOk, before,
                    replayVars, parseVars >>

\* _connected.wait() returns in the replay task.
replay_resumed ==
    /\ loop_free_for("replay")
    /\ connected

\* The replay comes to its next identifier: parse, and subprocess.run
\* starts git clone (started), or raises OSError.
replay_clone(started) ==
    /\ loop_free_for("replay")
    /\ task = "running"
    /\ replayIdx <= Len(plugins)
    /\ task' = IF \/ Len(Slice(parse_plugin(plugins[replayIdx]))) # 2
                  \/ ~ started
               THEN "failed" ELSE "cloning"
    /\ UNCHANGED << cmdVars, replayIdx, replayLog, initial, parseVars,
                    concVars >>

\* git clone exits and the replay runs on to the load of the identifier.
replay_finish(genv, lenv) ==
    /\ loop_free_for("replay")
    /\ task = "cloning"
    /\ replayIdx <= Len(plugins)
    /\ \E r \in { replay_iteration(plugins[replayIdx], genv, lenv,
                                  dirs, extensions) } :
        /\ dirs' = r.dirs
        /\ extensions' = r.extensions
        /\ task' = r.task
    /\ replayIdx' = replayIdx + 1
    /\ UNCHANGED << plugins, stored, last, addedOk, before, replayLog,
                    initial, parseVars, concVars >>

\* The for loop of the replay is exhausted.
replay_ended ==
    /\ loop_free_for("replay")
    /\ replay_returns

\* The host starts with a persisted list that earlier adds built, with any
\* of the cache directories present, nothing loaded and no command running.
InitConc ==
    /\ plugins \in { s \in ListsUpTo(MaxPlugins) :
                       Cardinality(Range(s)) = Len(s) /\ Range(s) \subseteq ConcIds }
    /\ stored = plugins
    /\ initial = plugins
    /\ dirs \in SUBSET { DirName(parse_plugin(p)[1], parse_plugin(p)[2]) :
                           p \in ConcIds }
    /\ extensions = { }
    /\ last = NoCommand
    /\ addedOk = Range(plugins)
    /\ before = { << plugins[ij[1]], plugins[ij[2]] >> :
                    ij \in { x \in (1..Len(plugins)) \X (1..Len(plugins)) :
                               x[1] < x[2] } }
    /\ task = "waiting"
    /\ replayIdx = 1
    /\ replayLog = << >>
    /\ parseIn = << >>
    /\ parseOut = [ done |-> FALSE, value |-> None ]
    /\ handler = [ h \in Handlers |-> Idle ]

AddTyping == \E h \in Handlers, p \in ConcIds : add_typing(h, p)
AddClone == \E h \in Handlers, started \in BOOLEAN : add_clone(h, started)
AddFinish ==
    \E h \in Handlers, g \in GitEnv \ { "nogit" }, l \in LoadEnv :
        add_finish(h, g, l)
RemoveBegin ==
    \E h \in Handlers, p \in ConcIds, r \in RmEnv : remove_begin(h, p, r)
RemoveEnd == \E h \in Handlers, s \in SendEnv : remove_end(h, s)
UpdateTyping == \E h \in Handlers, p \in ConcIds : update_typing(h, p)
UpdatePull == \E h \in Handlers : update_pull(h)
UpdateFinish ==
    \E h \in Handlers, e \in UpdateEnv : update_finish(h, e[1], e[2])
ReplayClone == \E started \in BOOLEAN : replay_clone(started)
ReplayFinish ==
    \E g \in GitEnv \ { "nogit" }, l \in LoadEnv : replay_finish(g, l)

NextConc ==
    \/ AddTyping \/ AddClone \/ AddFinish
    \/ RemoveBegin \/ RemoveEnd
    \/ UpdateTyping \/ UpdatePull \/ UpdateFinish
    \/ replay_resumed \/ ReplayClone \/ ReplayFinish \/ replay_ended

SpecConc == InitConc /\ [][NextConc]_vars

\* ================================================================== claims
\* The (owner, repository) pair an identifier names, read off its first two
\* segments, and the cache directory of that pair.
OwnerOf(p) == split(p)[1]
RepoOf(p) == split(p)[2]
SamePair(p, q) == OwnerOf(p) = OwnerOf(q) /\ RepoOf(p) = RepoOf(q)
DirOf(p) == DirName(OwnerOf(p), RepoOf(p))

\* An add that did not get through both its fetch and its load.
AddFailed(l) == l.op = "add" /\ ~ (l.fetch = "ok" /\ l.load = "ok")

\* C1: starting from an empty installed set, every identifier in the
\* installed set was fetched and loaded successfully by an earlier add of
\* that identifier, and an add whose fetch or load failed leaves the
\* installed set as it was.
C1_InstalledWereLoaded ==
    /\ [](\A k \in 1..Len(plugins) : plugins[k] \in addedOk)
    /\ [][AddFailed(last') => plugins' = plugins /\ stored' = stored]_vars

\* C1 witness: an add that fetched and loaded has put its identifier in the
\* installed set.
C1_Witness ==
    /\ last.op = "add"
    /\ last.fetch = "ok"
    /\ last.load = "ok"
    /\ last.raw \in Range(plugins)
    /\ last.raw \in Range(stored)

\* C2: the installed set never holds the same raw identifier twice.
C2_NoDuplicates ==
    \A i, j \in 1..Len(plugins) : plugins[i] = plugins[j] => i = j

\* What C3 expects of parse: None below three segments, else exactly the
\* three fields owner, repository, and the rest rejoined with '/'.
ParseExpected(name) ==
    LET segs == split(name) IN
    IF Len(segs) < 3 THEN None
    ELSE << segs[1], segs[2], join(SubSeq(segs, 3, Len(segs))) >>

\* C3: parse returns exactly (owner, repository, unit) for three or more
\* segments, unit being the remaining segments rejoined, and the parse
\* error value for fewer than three.
C3_ParseThreeFields ==
    parseOut.done => parseOut.value = ParseExpected(parseIn)

\* C4: a remove leaves the cache directory of (owner, repository) in place
\* when an identifier that stays installed names the same pair.
C4_SharedCacheKept ==
    [][\A p \in Range(plugins) :
          ( /\ last'.op = "remove"
            /\ last'.raw = p
            /\ \E q \in Range(list_remove(plugins, p)) : SamePair(q, p)
            /\ DirOf(p) \in dirs )
          => DirOf(p) \in dirs']_vars

\* C4 witness: a remove has uninstalled one unit of a repository, another
\* unit of the same repository is still installed and the directory is
\* still there.
C4_Witness ==
    /\ last.op = "remove"
    /\ last.msg = "uninstalled"
    /\ last.raw \notin Range(plugins)
    /\ \E q \in Range(plugins) : SamePair(q, last.raw)
    /\ DirOf(last.raw) \in dirs

\* C5: when a remove has taken out the last installed identifier of an
\* (owner, repository) pair, the cache directory of that pair is deleted
\* (unless the deletion itself failed), whatever else stays installed.
C5_LastRemoveDeletes ==
    ( /\ last.op = "remove"
      /\ last.msg = "uninstalled"
      /\ ~ \E q \in Range(plugins) : SamePair(q, last.raw)
      /\ last.rm # "failed" )
    => DirOf(last.raw) \notin dirs

\* C6 as claimed: after an add whose fetch succeeded and whose load failed,
\* the identifier is not in the installed set and the cache directory of
\* its repository exists.
C6_AbsentAfterFailedLoad ==
    ( /\ last.op = "add"
      /\ last.fetch = "ok"
      /\ last.load = "DownloadError" )
    => /\ last.raw \notin Range(plugins)
       /\ DirOf(last.raw) \in dirs

\* C6 as amended: an add whose fetch succeeded and whose load failed leaves
\* the installed set, in memory and in the store, exactly as it was, and
\* the cache directory of its repository exists when it returns.
C6_FailedLoadKeepsSet ==
    [][( /\ last'.op = "add"
         /\ last'.fetch = "ok"
         /\ last'.load = "DownloadError" )
       => /\ plugins' = plugins
          /\ stored' = stored
          /\ DirOf(last'.raw) \in dirs']_vars

\* C6 witness: an add of an identifier that was not installed fetched, then
\* failed to load; the identifier is absent and the directory is on disk.
C6_Witness ==
    /\ last.op = "add"
    /\ last.fetch = "ok"
    /\ last.load = "DownloadError"
    /\ last.raw \notin Range(plugins)
    /\ DirOf(last.raw) \in dirs

\* C7: a remove whose directory deletion failed ends with the identifier
\* back in the installed set and in the store, and a remove restores the
\* identifier only when the deletion failed.
C7_RestoreIffDeletionFailed ==
    last.op = "remove" =>
        /\ last.rm = "failed" =>
              /\ last.restored
              /\ last.raw \in Range(plugins)
              /\ last.raw \in Range(stored)
        /\ last.restored => last.rm = "failed"

\* C8: list() shows any two installed identifiers in the order of their
\* successful adds.
C8_ListInInstallOrder ==
    last.op = "list" =>
        \A i, j \in 1..Len(last.out) :
            (i < j /\ last.out[i] # last.out[j])
                => << last.out[j], last.out[i] >> \notin before

\* C9: when the replay has ended, an identifier whose fetch failed had no
\* load attempted, and the replay went on through every later identifier,
\* attempting the load of each one it fetched.
C9_FetchFailureSkipped ==
    task \in { "done", "failed" } =>
        \A k \in 1..Len(replayLog) :
            replayLog[k].fetch = "DownloadError" =>
                /\ replayLog[k].load = "none"
                /\ Len(replayLog) = Len(plugins)
                /\ \A j \in (k + 1)..Len(replayLog) :
                      replayLog[j].fetch = "ok" => replayLog[j].load # "none"

\* C10: when the replay has ended, a load failure after a successful fetch
\* has not ended the task with an error, every later identifier was
\* processed, and the installed set is the one the host started with.
C10_LoadFailureIsolated ==
    task \in { "done", "failed" } =>
        \A k \in 1..Len(replayLog) :
            ( replayLog[k].fetch = "ok" /\ replayLog[k].load = "DownloadError" )
            => /\ task = "done"
               /\ Len(replayLog) = Len(plugins)
               /\ plugins = initial

\* The unit an identifier names as the host runtime knows it.
UnitOf(p) ==
    LET parsed == parse_plugin(p) IN ExtName(parsed[1], parsed[2], parsed[3])

\* C11: an update whose pull fails issues no unload and no load, leaves the
\* loaded-unit registry and the installed set (in memory and in the store)
\* as they were, and reports the error.
C11_PullFailureChangesNothing ==
    [][( last'.op = "update" /\ last'.pull = "fail" )
       => /\ extensions' = extensions
          /\ plugins' = plugins
          /\ stored' = stored
          /\ last'.calls = << >>
          /\ last'.msg = "update_error"]_vars

\* C11 witness: the pull of an update of an installed, loaded unit failed;
\* the unit is still loaded.
C11_Witness ==
    /\ last.op = "update"
    /\ last.pull = "fail"
    /\ last.raw \in Range(plugins)
    /\ DirOf(last.raw) \in dirs
    /\ UnitOf(last.raw) \in extensions

\* C12: an update whose pull succeeds with nothing new reports that, issues
\* no unload and no load, and leaves the registry as it was with the load
\* generation of the unit where it stood.
C12_NoNewContentNoReload ==
    [][( last'.op = "update" /\ last'.pull = "uptodate" )
       => /\ extensions' = extensions
          /\ last'.calls = << >>
          /\ last'.gen = 0
          /\ last'.msg = "uptodate"]_vars

\* C12 witness: an update of an installed, loaded unit found nothing new;
\* the unit is still loaded.
C12_Witness ==
    /\ last.op = "update"
    /\ last.pull = "uptodate"
    /\ last.gen = 0
    /\ last.raw \in Range(plugins)
    /\ UnitOf(last.raw) \in extensions

\* C13: every add, remove and update call ends by returning an outcome
\* message to the caller, never by letting an exception out of the handler.
C13_NoOperationRaises ==
    last.op \in { "add", "remove", "update" } => last.msg # "raised"

\* C14: a fetch of an (owner, repository) pair whose cache directory
\* exists, once git has been started, raises no DownloadError: it returns
\* normally, clones nothing and leaves the cache as it was.
C14_FetchIdempotent ==
    [][( /\ last'.op = "add"
         /\ last'.fetch \in { "ok", "DownloadError" }
         /\ DirOf(last'.raw) \in dirs )
       => /\ last'.fetch = "ok"
          /\ ~ last'.cloned
          /\ dirs' = dirs]_vars

\* C14 witness: an add fetched a pair that was cached already; its fetch
\* succeeded without a clone.
C14_Witness ==
    /\ last.op = "add"
    /\ last.fetch = "ok"
    /\ ~ last.cloned
    /\ DirOf(last.raw) \in dirs

\* C15: a remove of an identifier that is not in the installed set is
\* rejected and leaves the installed set (in memory and in the store), the
\* loaded-unit registry and the cache directories as they were.
C15_RemoveAbsentNoEffect ==
    [][( last'.op = "remove" /\ last'.raw \notin Range(plugins) )
       => /\ plugins' = plugins
          /\ stored' = stored
          /\ extensions' = extensions
          /\ dirs' = dirs
          /\ last'.msg = "not_installed"]_vars

\* C15 witness: a remove of a well-formed identifier that is not installed
\* was rejected while another unit of its repository is installed, cached
\* and loaded.
C15_Witness ==
    /\ last.op = "remove"
    /\ last.msg = "not_installed"
    /\ last.raw \in ValidIds
    /\ last.raw \notin Range(plugins)
    /\ DirOf(last.raw) \in dirs
    /\ \E q \in Range(plugins) :
          SamePair(q, last.raw) /\ UnitOf(q) \in extensions

\* A remove is between its membership test and list.remove and its final
\* config.update() or restoring append: it is suspended in ctx.send('').
InWindow(h) == handler[h].op = "remove" /\ handler[h].pc = "sending"

\* C16: while one operation is between its first read of the installed set
\* and its final persist or restore, no step of another operation changes
\* the set, in memory or in the store.
C16_NoInterleavedSetUpdate ==
    [][\A h \in Handlers :
          ( InWindow(h) /\ InWindow(h)' )
          => ( plugins' = plugins /\ stored' = stored )]_vars

\* The cache directory a task has a git process running in, if it has one.
GitDirOf(h) ==
    IF h = "replay"
    THEN IF task = "cloning" /\ replayIdx <= Len(plugins)
         THEN { DirOf(plugins[replayIdx]) } ELSE { }
    ELSE IF handler[h].pc \in { "cloning", "pulling" }
         THEN { DirOf(handler[h].raw) } ELSE { }

\* Everything that can have a git process running: the command tasks and
\* the replay task.
GitTasks == Handlers \cup { "replay" }

\* C17: no two tasks have a git clone or git pull running in the cache
\* directory of the same (owner, repository) pair at the same time.
C17_OneGitPerDirectory ==
    \A h, g \in GitTasks : h # g => GitDirOf(h) \cap GitDirOf(g) = { }

\* C17 witness: a task has git running in a cache directory while another
\* command on an identifier of the same repository has been dispatched
\* and is suspended, waiting for the loop.
C17_Witness ==
    \E h, g \in Handlers :
        /\ h # g
        /\ GitDirOf(h) # { }
        /\ handler[g].pc = "typing"
        /\ DirOf(handler[g].raw) \in GitDirOf(h)

\* C18: an update of an installed, loaded unit whose pull brought new
\* content calls unload and then load, ends with the unit loaded at a load
\* generation one higher, and reports the output of the pull.
C18_UpdateReloadsInOrder ==
    [][( /\ last'.op = "update"
         /\ last'.pull = "new"
         /\ last'.raw \in Range(plugins)
         /\ UnitOf(last'.raw) \in extensions )
       => /\ last'.calls = << "unload", "load" >>
          /\ last'.gen = 1
          /\ UnitOf(last'.raw) \in extensions'
          /\ last'.msg = "updated"]_vars

\* C19: between commands, every identifier in the installed set has the
\* cache directory of its repository on disk.
C19_InstalledAreCached ==
    \A k \in 1..Len(plugins) : DirOf(plugins[k]) \in dirs

\* C20: between commands, every unit registered with the host runtime is
\* the unit of an identifier in the installed set.
C20_LoadedAreInstalled ==
    \A e \in extensions : \E k \in 1..Len(plugins) : UnitOf(plugins[k]) = e

====
